---- MODULE Spec2Model ----
(***************************************************************************)
(* Model of the MRI analysis pipeline of the backend: the analyze endpoint *)
(* (app.py analyze_scan / routes/predict_api.py analyze_mri), the          *)
(* background worker (_run_pipeline_background / run_analysis_background), *)
(* run_model with its CAT12 preprocessing, slice extraction and inference, *)
(* and the database helpers the worker calls.                              *)
(***************************************************************************)
EXTENDS Integers, Sequences, FiniteSets, TLC

\* ------------------------------------------------------------------------
\* Bounds and program constants
\* ------------------------------------------------------------------------
MaxRuns == 2
MaxDepth == 2
NUM_SLICES == 5
MaxPredictions == 3
MaxNumSlices == 4
ProbSteps == 10
MaxViewerRuns == 2

Runs == 1..MaxRuns
Sessions == {"s1", "s2"}
FileNames == {"scan.nii", "mwp1scan.nii"}
Paths == Sessions \X FileNames
NoFile == 0
NoPath == <<"none", "none">>
SliceDirs == {"uploads", "mri"}
SliceSlots == 1..NUM_SLICES

ChartKeys == {"similarity_plot_url", "volume_chart_url", "confidence_chart_url"}
ReportTypes == <<"technical", "clinician", "patient">>
ReportKeys == {"technical", "clinician", "patient"}
Terminal == {"completed", "failed"}
Statuses == {"pending", "processing"} \cup Terminal

NoResult == [prediction |-> "none", model_version |-> "none"]
NoPatientResult == [patient_diagnosis |-> "none"]
NoRunResult == [prediction |-> "none", status |-> "none"]
ErrorResult == [prediction |-> "Error", model_version |-> "none"]
NoVolume == [shape |-> <<>>]
NoCenter == [sagittal |-> -1]
NoWindow == [view_plane |-> "none"]
NoViewerResult == [session_code |-> "none"]
NotMeasured == [none |-> 0]
NoPrediction == [predicted_class |-> "none"]
NoComparison == [none |-> "none"]

VARIABLES
    variant,            \* which worker the deployment registers: "app" or "api"
    SUPABASE_configured,\* config.SUPABASE_URL / SERVICE_ROLE_KEY are set
    checkpoint_ok,      \* the ConViT checkpoint loads (predictor.is_available())
    supabase_client,    \* supabase_client._supabase_client: "none" or "ready"
    mri_sessions,       \* table mri_sessions: session id -> status
    uploads,            \* UPLOAD_FOLDER/<session>_<filename>: content or NoFile
    script,             \* CAT12_OUTPUT_DIR/temp_process.m: the input path it names
    mwp1_files,         \* CAT12_OUTPUT_DIR/mwp1<session>_<filename>
    slice_files,        \* <dir>/slices/slice_<i>.png: content per slot
    pc,                 \* position of each worker
    session_id, filename,
    processed_path,     \* run_model local: "none", "raw" or "mwp1"
    cat12_outcome,      \* what the preprocessing stage of the run did
    slice_paths,        \* run_model local: number of slice files returned
    individual_predictions,
    ml_results,
    prediction_id,      \* TRUE once create_prediction_record returned an id
    slice_urls,         \* TRUE when the viewer upload returned a non-empty mapping
    uploaded_urls, report_errors,
    report_log,         \* outcome of every report attempt, in order
    final_status,
    record_update,      \* result of update_prediction_with_reports: "none", "ok", "failed"
    status_writes,      \* statuses this run passed to the mri_sessions update
    raised,             \* an exception left the worker function
    image_predictions,  \* predict_patient: what predict_single_image returned per slice
    volume_extraction,  \* run_model: how the volume extraction went
    patient_result,     \* what predict_patient returned
    run_result,         \* what run_model returned for that patient result
    volume,             \* NIfTISlicer: the loaded volume (shape and tissue mask)
    center_map,         \* what _find_brain_center returned for it
    slice_window,       \* extract_middle_slices: plane, count and indices
    viewer_result,      \* extract_and_upload_viewer_slices: arguments and returned mapping
    measured_volumes,   \* the volumes of a result: volume name -> value (tenths of cm3)
    comparisons,        \* what get_volume_comparison returned: name -> status
    volume_statuses,    \* what get_volume_status returned per measured volume
    single_prediction,  \* what predict_single_image returned for one slice
    viewer_storage,     \* bucket mri-scans: <<storage path, session id of the uploading run>>
    viewer_sessions     \* session ids of the runs that uploaded viewer slices, in order

pipeline_vars == <<variant, SUPABASE_configured, checkpoint_ok, supabase_client,
                   mri_sessions, uploads, script, mwp1_files, slice_files, pc,
                   session_id, filename, processed_path, cat12_outcome, slice_paths,
                   individual_predictions, ml_results, prediction_id, slice_urls,
                   uploaded_urls, report_errors, report_log, final_status,
                   record_update, status_writes, raised>>

aggregate_vars == <<image_predictions, volume_extraction, patient_result, run_result>>

\* State of the function-level specifications.
slicer_vars == <<volume, center_map, slice_window, viewer_result>>

comparison_vars == <<measured_volumes, comparisons, volume_statuses>>

storage_vars == <<viewer_storage, viewer_sessions>>

unit_vars == <<slicer_vars, comparison_vars, single_prediction, storage_vars, storage_vars>>

vars == <<pipeline_vars, aggregate_vars, unit_vars>>

globals == <<variant, SUPABASE_configured, checkpoint_ok>>
files == <<uploads, script, mwp1_files, slice_files>>
ml_locals == <<processed_path, cat12_outcome, slice_paths, individual_predictions>>
report_locals == <<slice_urls, uploaded_urls, report_errors, report_log,
                   final_status, record_update>>

Min(a, b) == IF a < b THEN a ELSE b
Max(a, b) == IF a > b THEN a ELSE b

\* ------------------------------------------------------------------------
\* Pure helpers
\* ------------------------------------------------------------------------
\* "mwp1" in os.path.basename(path)
HasMwp1(f) == f = "mwp1scan.nii"

\* filepath.lower().endswith(('.nii', '.nii.gz', '.gz'))
IsNifti(f) == f \in {"scan.nii", "mwp1scan.nii"}

\* start_idx = max(0, center - num_slices // 2);
\* end_idx = min(length, start_idx + num_slices); range(start_idx, end_idx)
SliceIndices(length, center, count) ==
    LET start_idx == Max(0, center - (count \div 2))
        end_idx == Min(length, start_idx + count)
    IN [i \in 1..Max(0, end_idx - start_idx) |-> start_idx + i - 1]

\* get_supabase_client() returns (rather than raising ValueError)
ClientAvailable == supabase_client = "ready" \/ SUPABASE_configured

PathOf(r) == <<session_id[r], filename[r]>>

TypeOK ==
    /\ variant \in {"app", "api"}
    /\ supabase_client \in {"none", "ready"}
    /\ mri_sessions \in [Sessions -> Statuses]
    /\ uploads \in [Paths -> Runs \cup {NoFile}]

Init ==
    /\ variant \in {"app", "api"}
    /\ SUPABASE_configured \in BOOLEAN
    /\ checkpoint_ok \in BOOLEAN
    /\ supabase_client = "none"
    /\ mri_sessions = [s \in Sessions |-> "pending"]
    /\ uploads = [p \in Paths |-> NoFile]
    /\ script = NoPath
    /\ mwp1_files = [p \in Paths |-> NoFile]
    /\ slice_files = [d \in SliceDirs |-> [i \in SliceSlots |-> NoFile]]
    /\ pc = [r \in Runs |-> "idle"]
    /\ session_id = [r \in Runs |-> "none"]
    /\ filename = [r \in Runs |-> "none"]
    /\ processed_path = [r \in Runs |-> "none"]
    /\ cat12_outcome = [r \in Runs |-> "none"]
    /\ slice_paths = [r \in Runs |-> 0]
    /\ individual_predictions = [r \in Runs |-> <<>>]
    /\ ml_results = [r \in Runs |-> NoResult]
    /\ prediction_id = [r \in Runs |-> FALSE]
    /\ slice_urls = [r \in Runs |-> FALSE]
    /\ uploaded_urls = [r \in Runs |-> {}]
    /\ report_errors = [r \in Runs |-> <<>>]
    /\ report_log = [r \in Runs |-> <<>>]
    /\ final_status = [r \in Runs |-> "none"]
    /\ record_update = [r \in Runs |-> "none"]
    /\ status_writes = [r \in Runs |-> <<>>]
    /\ raised = [r \in Runs |-> FALSE]
    /\ image_predictions = <<>>
    /\ volume_extraction = "none"
    /\ patient_result = NoPatientResult
    /\ run_result = NoRunResult
    /\ volume = NoVolume
    /\ center_map = NoCenter
    /\ slice_window = NoWindow
    /\ viewer_result = NoViewerResult
    /\ measured_volumes = NotMeasured
    /\ comparisons = NoComparison
    /\ volume_statuses = NoComparison
    /\ single_prediction = NoPrediction
    /\ viewer_storage = {}
    /\ viewer_sessions = <<>>

\* ------------------------------------------------------------------------
\* Database helpers (database.py)
\* ------------------------------------------------------------------------
\* update_session_status once get_supabase_client() has returned: the update
\* either executes or raises inside the helper's try, which returns (False, err).
update_session_status(r, status, db_ok) ==
    /\ supabase_client' = "ready"
    /\ mri_sessions' = IF db_ok THEN [mri_sessions EXCEPT ![session_id[r]] = status]
                                ELSE mri_sessions
    /\ status_writes' = [status_writes EXCEPT ![r] = Append(@, status)]

\* ------------------------------------------------------------------------
\* The analyze endpoint: save the upload, start the worker thread
\* ------------------------------------------------------------------------
analyze_scan(r, names) ==
    /\ pc[r] = "idle"
    /\ \A q \in Runs : q < r => pc[q] # "idle"
    /\ \E s \in Sessions, f \in names :
        /\ session_id' = [session_id EXCEPT ![r] = s]
        /\ filename' = [filename EXCEPT ![r] = f]
        /\ uploads' = [uploads EXCEPT ![<<s, f>>] = r]
    /\ pc' = [pc EXCEPT ![r] = "entry"]
    /\ UNCHANGED <<aggregate_vars, unit_vars, globals, supabase_client, mri_sessions, script, mwp1_files,
                   slice_files, ml_locals, ml_results, prediction_id,
                   report_locals, status_writes, raised>>

\* ------------------------------------------------------------------------
\* Worker entry: (api: client construction outside the try,) mark processing
\* ------------------------------------------------------------------------
\* Variant of the entry that starts the analysis without the status write.
worker_begin_SkipsProcessing(r) ==
    /\ pc[r] = "entry"
    /\ IF ~ClientAvailable
       THEN /\ IF variant = "api"
               THEN /\ pc' = [pc EXCEPT ![r] = "done"]
                    /\ raised' = [raised EXCEPT ![r] = TRUE]
               ELSE /\ pc' = [pc EXCEPT ![r] = "except"]
                    /\ UNCHANGED raised
            /\ UNCHANGED <<supabase_client, mri_sessions, status_writes>>
       ELSE /\ pc' = [pc EXCEPT ![r] = "run_model"]
            /\ supabase_client' = "ready"
            /\ UNCHANGED <<mri_sessions, status_writes, raised>>
    /\ UNCHANGED <<aggregate_vars, unit_vars, globals, files, session_id, filename, ml_locals, ml_results,
                   prediction_id, report_locals>>

worker_begin(r) ==
    /\ pc[r] = "entry"
    /\ IF ~ClientAvailable
       THEN /\ IF variant = "api"
               THEN /\ pc' = [pc EXCEPT ![r] = "done"]
                    /\ raised' = [raised EXCEPT ![r] = TRUE]
               ELSE /\ pc' = [pc EXCEPT ![r] = "except"]
                    /\ UNCHANGED raised
            /\ UNCHANGED <<supabase_client, mri_sessions, status_writes>>
       ELSE /\ \E db_ok \in BOOLEAN : update_session_status(r, "processing", db_ok)
            /\ pc' = [pc EXCEPT ![r] = "run_model"]
            /\ UNCHANGED raised
    /\ UNCHANGED <<aggregate_vars, unit_vars, globals, files, session_id, filename, ml_locals, ml_results,
                   prediction_id, report_locals>>

\* ------------------------------------------------------------------------
\* run_model step 1: CAT12 preprocessing (cat12_manager.py)
\* ------------------------------------------------------------------------
\* Either the input is already an mwp1 file, or run_cat12_preprocessing
\* writes the job script to the fixed path temp_process.m.
run_model_preprocess(r) ==
    /\ pc[r] = "run_model"
    /\ IF HasMwp1(filename[r])
       THEN /\ processed_path' = [processed_path EXCEPT ![r] = "raw"]
            /\ cat12_outcome' = [cat12_outcome EXCEPT ![r] = "skipped"]
            /\ pc' = [pc EXCEPT ![r] = "slice"]
            /\ UNCHANGED script
       ELSE \E written \in BOOLEAN :
            IF written
            THEN /\ script' = PathOf(r)
                 /\ pc' = [pc EXCEPT ![r] = "cat12_exec"]
                 /\ UNCHANGED <<processed_path, cat12_outcome>>
            ELSE \* open(script_path, "w") raises OSError: nothing catches it
                 /\ cat12_outcome' = [cat12_outcome EXCEPT ![r] = "script_write_failed"]
                 /\ pc' = [pc EXCEPT ![r] = "except"]
                 /\ UNCHANGED <<script, processed_path>>
    /\ UNCHANGED <<aggregate_vars, unit_vars, globals, supabase_client, mri_sessions, uploads, mwp1_files,
                   slice_files, session_id, filename, slice_paths,
                   individual_predictions, ml_results, prediction_id,
                   report_locals, status_writes, raised>>

Cat12Outcomes == {"exit0", "nonzero", "not_startable", "hang"}

\* What the run does with each way subprocess.run(command, check=True) ends.
\* Returns the next pc: only CalledProcessError is caught.
Cat12Next(out) ==
    CASE out = "exit0" -> "slice"
      [] out = "nonzero" -> "slice"
      [] out = "not_startable" -> "except"
      [] out = "hang" -> "cat12_hung"

run_cat12_exec(r) ==
    /\ pc[r] = "cat12_exec"
    /\ \E out \in Cat12Outcomes, produced \in BOOLEAN :
        LET target == script
            writes == out = "exit0" /\ produced /\ target # NoPath
                        /\ uploads[target] # NoFile
            new_mwp1 == IF writes THEN [mwp1_files EXCEPT ![target] = uploads[target]]
                                  ELSE mwp1_files
            found == out = "exit0" /\ new_mwp1[PathOf(r)] # NoFile
        IN /\ (out # "exit0" => ~produced)
           /\ mwp1_files' = new_mwp1
           /\ pc' = [pc EXCEPT ![r] = Cat12Next(out)]
           /\ cat12_outcome' = [cat12_outcome EXCEPT ![r] =
                  IF out = "exit0" THEN (IF found THEN "ok" ELSE "no_output") ELSE out]
           /\ processed_path' = [processed_path EXCEPT ![r] =
                  IF Cat12Next(out) = "slice"
                  THEN (IF found THEN "mwp1" ELSE "raw") ELSE @]
    /\ UNCHANGED <<aggregate_vars, unit_vars, globals, supabase_client, mri_sessions, uploads, script,
                   slice_files, session_id, filename, slice_paths,
                   individual_predictions, ml_results, prediction_id,
                   report_locals, status_writes, raised>>

\* ------------------------------------------------------------------------
\* run_model step 2: slice extraction (NIfTISlicer.extract_middle_slices)
\* ------------------------------------------------------------------------
SliceDirOf(r) == IF processed_path[r] = "mwp1" THEN "mri" ELSE "uploads"
SourceOf(r) == IF processed_path[r] = "mwp1" THEN mwp1_files[PathOf(r)]
                                             ELSE uploads[PathOf(r)]

\* The files slice_1 .. slice_n of the fixed directory are overwritten.
SaveSlices(dir_files, n, content) ==
    [i \in SliceSlots |-> IF i <= n THEN content ELSE dir_files[i]]

run_model_slice(r) ==
    /\ pc[r] = "slice"
    /\ \/ \* the file is gone or cannot be loaded: extract_middle_slices
          \* returns [] and run_model returns _error_response (a failure
          \* part-way through the save loop is not distinguished from this)
          /\ ml_results' = [ml_results EXCEPT ![r] = ErrorResult]
          /\ pc' = [pc EXCEPT ![r] = "ml_done"]
          /\ UNCHANGED <<slice_files, slice_paths>>
       \/ /\ SourceOf(r) # NoFile
          /\ \E depth \in 1..MaxDepth : \E center \in 0..(depth - 1) :
              LET n == Len(SliceIndices(depth, center, NUM_SLICES))
              IN /\ n > 0
                 /\ slice_files' = [slice_files EXCEPT ![SliceDirOf(r)] =
                                        SaveSlices(@, n, SourceOf(r))]
                 /\ slice_paths' = [slice_paths EXCEPT ![r] = n]
          /\ pc' = [pc EXCEPT ![r] = "infer"]
          /\ UNCHANGED ml_results
    /\ UNCHANGED <<aggregate_vars, unit_vars, globals, supabase_client, mri_sessions, uploads, script,
                   mwp1_files, session_id, filename, processed_path,
                   cat12_outcome, individual_predictions, prediction_id,
                   report_locals, status_writes, raised>>

\* ------------------------------------------------------------------------
\* run_model step 3: inference (MRIPredictor)
\* ------------------------------------------------------------------------
\* predict_single_image: the stand-in prediction when the model is not
\* available and also when the real inference raises; it never raises itself.
predict_single_image(available, content, outcome) ==
    [raised |-> FALSE,
     src |-> content,
     kind |-> IF available /\ outcome = "ok" THEN "real" ELSE "mock"]

\* predict_patient's loop: a slice is skipped only when predict_single_image raises.
RECURSIVE predict_loop(_, _, _, _)
predict_loop(i, contents, outcomes, acc) ==
    IF i > Len(contents) THEN acc
    ELSE LET prediction == predict_single_image(TRUE, contents[i], outcomes[i])
         IN predict_loop(i + 1, contents, outcomes,
                IF prediction.raised THEN acc
                ELSE Append(acc, [image_index |-> i, src |-> prediction.src,
                                  kind |-> prediction.kind]))

RealResult == [prediction |-> "label", model_version |-> "ConViT-v1.0"]
MockResult == [prediction |-> "label", model_version |-> "mock-v1.0"]

\* What run_model returns from step 3 on: the mock runner's result when the
\* checkpoint is missing, the model is unavailable or predict_patient raised.
InferResult(available, predictions) ==
    IF ~available \/ Len(predictions) = 0 THEN MockResult ELSE RealResult

run_model_infer(r) ==
    /\ pc[r] = "infer"
    /\ IF ~checkpoint_ok
       THEN \* checkpoint missing or model not initialised: _run_model_mock
            /\ individual_predictions' = [individual_predictions EXCEPT ![r] = <<>>]
            /\ ml_results' = [ml_results EXCEPT ![r] = InferResult(FALSE, <<>>)]
       ELSE \E outcomes \in [1..slice_paths[r] -> {"ok", "exc"}] :
            LET contents == [i \in 1..slice_paths[r] |-> slice_files[SliceDirOf(r)][i]]
                predictions == predict_loop(1, contents, outcomes, <<>>)
            IN /\ individual_predictions' =
                      [individual_predictions EXCEPT ![r] = predictions]
               /\ ml_results' = [ml_results EXCEPT ![r] = InferResult(TRUE, predictions)]
    /\ pc' = [pc EXCEPT ![r] = "ml_done"]
    /\ UNCHANGED <<aggregate_vars, unit_vars, globals, supabase_client, mri_sessions, files, session_id,
                   filename, processed_path, cat12_outcome, slice_paths,
                   prediction_id, report_locals, status_writes, raised>>

\* ------------------------------------------------------------------------
\* Back in the worker: error check (app only) and create_prediction_record
\* ------------------------------------------------------------------------
\* app.py returns early on an 'Error' prediction; predict_api.py has no such check.
ChecksMlError(v) == v = "app"

ClearMlLocals(r) ==
    /\ processed_path' = [processed_path EXCEPT ![r] = "none"]
    /\ cat12_outcome' = [cat12_outcome EXCEPT ![r] = "none"]
    /\ slice_paths' = [slice_paths EXCEPT ![r] = 0]
    /\ individual_predictions' = [individual_predictions EXCEPT ![r] = <<>>]

create_record(r) ==
    /\ pc[r] = "ml_done"
    /\ ClearMlLocals(r)
    /\ IF ChecksMlError(variant) /\ ml_results[r].prediction = "Error"
       THEN /\ \E db_ok \in BOOLEAN : update_session_status(r, "failed", db_ok)
            /\ pc' = [pc EXCEPT ![r] = "finally"]
            /\ UNCHANGED prediction_id
       ELSE \E created \in BOOLEAN :
            IF created
            THEN /\ prediction_id' = [prediction_id EXCEPT ![r] = TRUE]
                 /\ pc' = [pc EXCEPT ![r] = "viewer"]
                 /\ UNCHANGED <<supabase_client, mri_sessions, status_writes>>
            ELSE IF variant = "app"
                 THEN /\ \E db_ok \in BOOLEAN : update_session_status(r, "failed", db_ok)
                      /\ pc' = [pc EXCEPT ![r] = "finally"]
                      /\ UNCHANGED prediction_id
                 ELSE \* raise Exception("Failed to create prediction")
                      /\ pc' = [pc EXCEPT ![r] = "except"]
                      /\ UNCHANGED <<prediction_id, supabase_client, mri_sessions,
                                     status_writes>>
    /\ UNCHANGED <<aggregate_vars, unit_vars, globals, files, session_id, filename, ml_results,
                   report_locals, raised>>

\* ------------------------------------------------------------------------
\* Viewer slices (extract_and_upload_viewer_slices), wrapped in try/except
\* ------------------------------------------------------------------------
viewer_slices(r) ==
    /\ pc[r] = "viewer"
    /\ \E uploaded \in BOOLEAN :
        /\ uploaded => (IsNifti(filename[r]) /\ uploads[PathOf(r)] # NoFile)
        /\ slice_urls' = [slice_urls EXCEPT ![r] = uploaded]
    /\ pc' = [pc EXCEPT ![r] = "charts"]
    /\ UNCHANGED <<aggregate_vars, unit_vars, globals, supabase_client, mri_sessions, files, session_id,
                   filename, ml_locals, ml_results, prediction_id, uploaded_urls,
                   report_errors, report_log, final_status, record_update,
                   status_writes, raised>>

\* ------------------------------------------------------------------------
\* Similarity analysis, chart generation and chart uploads
\* ------------------------------------------------------------------------
\* The three generators are called outside any inner try: an exception of
\* one of them reaches the worker's outer handler. Each generated chart is
\* then decoded and uploaded in a try of its own: upload_to_storage returns
\* (url, None) or (None, err); an exception is recorded in report_errors.
ChartTypes == <<"similarity_plot_url", "volume_chart_url", "confidence_chart_url">>
ChartOutcomes == {"ok", "no_url", "exception"}

\* One iteration of the loop over the chart configurations.
chart_attempt(url_key, outcome, acc) ==
    [urls |-> IF outcome = "ok" THEN acc.urls \cup {url_key} ELSE acc.urls,
     errors |-> IF outcome = "exception" THEN Append(acc.errors, url_key)
                                         ELSE acc.errors]

RECURSIVE chart_loop(_, _, _)
chart_loop(i, outcomes, acc) ==
    IF i > Len(ChartTypes) THEN acc
    ELSE chart_loop(i + 1, outcomes,
                    chart_attempt(ChartTypes[i], outcomes[ChartTypes[i]], acc))

charts(r) ==
    /\ pc[r] = "charts"
    /\ \/ /\ pc' = [pc EXCEPT ![r] = "except"]
          /\ UNCHANGED <<uploaded_urls, report_errors>>
       \/ \E outcomes \in [ChartKeys -> ChartOutcomes] :
          LET res == chart_loop(1, outcomes,
                         [urls |-> uploaded_urls[r], errors |-> report_errors[r]])
          IN /\ uploaded_urls' = [uploaded_urls EXCEPT ![r] = res.urls]
             /\ report_errors' = [report_errors EXCEPT ![r] = res.errors]
             /\ pc' = [pc EXCEPT ![r] = "reports"]
    /\ UNCHANGED <<aggregate_vars, unit_vars, globals, supabase_client, mri_sessions, files, session_id,
                   filename, ml_locals, ml_results, prediction_id, slice_urls,
                   report_log, final_status, record_update,
                   status_writes, raised>>

\* ------------------------------------------------------------------------
\* The three PDF reports, each in its own try
\* ------------------------------------------------------------------------
ReportOutcomes == {"ok", "upload_failed", "exception"}

\* Variant of an iteration that records no error for a failed report.
report_attempt_DropsError(pdf_type, outcome, acc) ==
    [urls |-> IF outcome = "ok" THEN acc.urls \cup {pdf_type} ELSE acc.urls,
     errors |-> acc.errors,
     log |-> Append(acc.log, [pdf_type |-> pdf_type, ok |-> outcome = "ok"])]

\* One iteration of the loop over pdf_configs.
report_attempt(pdf_type, outcome, acc) ==
    [urls |-> IF outcome = "ok" THEN acc.urls \cup {pdf_type} ELSE acc.urls,
     errors |-> IF outcome = "ok" THEN acc.errors ELSE Append(acc.errors, pdf_type),
     log |-> Append(acc.log, [pdf_type |-> pdf_type, ok |-> outcome = "ok"])]

RECURSIVE report_loop(_, _, _)
report_loop(i, outcomes, acc) ==
    IF i > Len(ReportTypes) THEN acc
    ELSE report_loop(i + 1, outcomes,
                     report_attempt(ReportTypes[i], outcomes[ReportTypes[i]], acc))

reports(r) ==
    /\ pc[r] = "reports"
    /\ \E outcomes \in [ReportKeys -> ReportOutcomes] :
        LET res == report_loop(1, outcomes,
                       [urls |-> uploaded_urls[r], errors |-> report_errors[r],
                        log |-> <<>>])
        IN /\ uploaded_urls' = [uploaded_urls EXCEPT ![r] = res.urls]
           /\ report_errors' = [report_errors EXCEPT ![r] = res.errors]
           /\ report_log' = [report_log EXCEPT ![r] = res.log]
    /\ pc' = [pc EXCEPT ![r] = "finalize"]
    /\ UNCHANGED <<aggregate_vars, unit_vars, globals, supabase_client, mri_sessions, files, session_id,
                   filename, ml_locals, ml_results, prediction_id, slice_urls,
                   final_status, record_update, status_writes, raised>>

\* ------------------------------------------------------------------------
\* Final status decision, record update, terminal status write
\* ------------------------------------------------------------------------
has_any_report(urls) == urls \cap ReportKeys # {}

\* Variant of the decision in which any recorded error fails the run.
FinalStatus_AnyErrorFails(errors, urls) ==
    IF Len(errors) > 0 THEN "failed" ELSE "completed"

FinalStatus(errors, urls) ==
    IF Len(errors) > 0 /\ ~has_any_report(urls) THEN "failed" ELSE "completed"

\* The artifact URLs of the run's prediction record: update_prediction_with_reports
\* writes all of uploaded_urls in one update, or nothing when the update fails.
stored_urls(r) == IF record_update[r] = "ok" THEN uploaded_urls[r] ELSE {}

finalize(r) ==
    /\ pc[r] = "finalize"
    /\ LET st == FinalStatus(report_errors[r], uploaded_urls[r])
       IN /\ final_status' = [final_status EXCEPT ![r] = st]
          /\ \E upd_ok \in BOOLEAN :
                record_update' = [record_update EXCEPT ![r] =
                                      IF upd_ok THEN "ok" ELSE "failed"]
          /\ \E db_ok \in BOOLEAN : update_session_status(r, st, db_ok)
    /\ pc' = [pc EXCEPT ![r] = "finally"]
    /\ UNCHANGED <<aggregate_vars, unit_vars, globals, files, session_id, filename, ml_locals, ml_results,
                   prediction_id, slice_urls, uploaded_urls, report_errors,
                   report_log, raised>>

\* ------------------------------------------------------------------------
\* except Exception: mark the session failed
\* ------------------------------------------------------------------------
\* update_session_status calls get_supabase_client() before its own try, so
\* the handler itself raises when the client cannot be constructed.
except_handler(r) ==
    /\ pc[r] = "except"
    /\ IF ClientAvailable
       THEN /\ \E db_ok \in BOOLEAN : update_session_status(r, "failed", db_ok)
            /\ UNCHANGED raised
       ELSE /\ raised' = [raised EXCEPT ![r] = TRUE]
            /\ UNCHANGED <<supabase_client, mri_sessions, status_writes>>
    /\ pc' = [pc EXCEPT ![r] = "finally"]
    /\ UNCHANGED <<aggregate_vars, unit_vars, globals, files, session_id, filename, ml_locals, ml_results,
                   prediction_id, report_locals>>

\* ------------------------------------------------------------------------
\* finally: remove the temp file; the worker function returns
\* ------------------------------------------------------------------------
\* os.remove is itself wrapped in try/except: a failed removal is ignored.
remove_temp(files_, path, removed) ==
    IF files_[path] # NoFile /\ removed THEN [files_ EXCEPT ![path] = NoFile]
                                        ELSE files_

cleanup(r) ==
    /\ pc[r] = "finally"
    /\ \E removed \in BOOLEAN :
        /\ (uploads[PathOf(r)] = NoFile => removed)
        /\ uploads' = remove_temp(uploads, PathOf(r), removed)
    /\ pc' = [pc EXCEPT ![r] = "done"]
    /\ ClearMlLocals(r)
    /\ ml_results' = [ml_results EXCEPT ![r] = NoResult]
    /\ prediction_id' = [prediction_id EXCEPT ![r] = FALSE]
    /\ slice_urls' = [slice_urls EXCEPT ![r] = FALSE]
    /\ uploaded_urls' = [uploaded_urls EXCEPT ![r] = {}]
    /\ report_errors' = [report_errors EXCEPT ![r] = <<>>]
    /\ report_log' = [report_log EXCEPT ![r] = <<>>]
    /\ final_status' = [final_status EXCEPT ![r] = "none"]
    /\ record_update' = [record_update EXCEPT ![r] = "none"]
    /\ status_writes' = [status_writes EXCEPT ![r] = <<>>]
    /\ UNCHANGED <<aggregate_vars, unit_vars, globals, supabase_client, mri_sessions, script, mwp1_files,
                   slice_files, session_id, filename, raised>>

\* ------------------------------------------------------------------------
\* One analysis request, every stage of the worker a step of its own
\* ------------------------------------------------------------------------
SoloRuns == {1}

Next ==
    \E r \in SoloRuns :
        \/ analyze_scan(r, FileNames)
        \/ worker_begin(r)
        \/ run_model_preprocess(r)
        \/ run_cat12_exec(r)
        \/ run_model_slice(r)
        \/ run_model_infer(r)
        \/ create_record(r)
        \/ viewer_slices(r)
        \/ charts(r)
        \/ reports(r)
        \/ finalize(r)
        \/ except_handler(r)
        \/ cleanup(r)

Spec == Init /\ [][Next]_vars

\* ------------------------------------------------------------------------
\* Overlapping requests. The stages after run_model (record creation, viewer
\* slices, charts, reports, terminal status write) issue at most one status
\* write and otherwise touch only the run's locals, so they are taken as one
\* step here, built from the same operators as the single steps.
\* ------------------------------------------------------------------------
\* The statuses the report stage can end with, over every outcome of the
\* chart uploads and of the three report attempts.
ReportStageStatuses ==
    { FinalStatus(res.errors, res.urls) :
        res \in { report_loop(1, outcomes,
                      [urls |-> ch.urls, errors |-> ch.errors, log |-> <<>>]) :
                  ch \in { chart_loop(1, chart_outcomes,
                               [urls |-> {}, errors |-> <<>>]) :
                           chart_outcomes \in [ChartKeys -> ChartOutcomes] },
                  outcomes \in [ReportKeys -> ReportOutcomes] } }

\* The ways the worker can leave the stages after run_model: <<status
\* written or "none", next pc>>.
WorkerRestOutcomes(v, prediction) ==
    IF ChecksMlError(v) /\ prediction = "Error"
    THEN {<<"failed", "finally">>}
    ELSE {IF v = "app" THEN <<"failed", "finally">> ELSE <<"none", "except">>}
            \cup {<<"none", "except">>}
            \cup {<<st, "finally">> : st \in ReportStageStatuses}

worker_rest(r) ==
    /\ pc[r] = "ml_done"
    /\ ClearMlLocals(r)
    /\ \E out \in WorkerRestOutcomes(variant, ml_results[r].prediction) :
        /\ IF out[1] = "none"
           THEN UNCHANGED <<supabase_client, mri_sessions, status_writes>>
           ELSE \E db_ok \in BOOLEAN : update_session_status(r, out[1], db_ok)
        /\ pc' = [pc EXCEPT ![r] = out[2]]
    /\ UNCHANGED <<aggregate_vars, unit_vars, globals, files, session_id, filename, ml_results,
                   prediction_id, report_locals, raised>>

ConcFileNames == {"scan.nii"}

NextConc ==
    \E r \in Runs :
        \/ analyze_scan(r, ConcFileNames)
        \/ worker_begin(r)
        \/ run_model_preprocess(r)
        \/ run_cat12_exec(r)
        \/ run_model_slice(r)
        \/ run_model_infer(r)
        \/ worker_rest(r)
        \/ except_handler(r)
        \/ cleanup(r)

SpecConc == Init /\ [][NextConc]_vars

\* ------------------------------------------------------------------------
\* Majority voting (MRIPredictor.predict_patient) and the response run_model
\* builds from it. Numbers are integers: a confidence is in hundredths of a
\* percent (8000 is 80.00), a consensus strength or vote percentage in tenths
\* of a percent (667 is 66.7), as many decimals as the code rounds to.
\* ------------------------------------------------------------------------
class_names == <<"AD", "CN", "MCI">>
Classes == {class_names[i] : i \in 1..Len(class_names)}
Confidences == {7000, 9000, 9500}
SlicePredictions == [predicted_class : Classes, confidence : Confidences]
PredictionSeqs == UNION {[1..n -> SlicePredictions] : n \in 1..MaxPredictions}

\* round(a / b, .) at the precision of the unit of a / b. Python rounds a tie
\* to the even neighbour; no input drawn here produces a tie.
RoundDiv(a, b) == (2 * a + b) \div (2 * b)

\* predicted_classes: the labels in the order of the per-slice predictions.
predicted_classes(predictions) ==
    [i \in 1..Len(predictions) |-> predictions[i].predicted_class]

\* Counter(predicted_classes): its keys are kept in order of first insertion.
RECURSIVE CounterKeys(_, _, _)
CounterKeys(i, labels, keys) ==
    IF i > Len(labels) THEN keys
    ELSE CounterKeys(i + 1, labels,
             IF \E k \in 1..Len(keys) : keys[k] = labels[i]
             THEN keys ELSE Append(keys, labels[i]))

vote_counts(labels, cls) == Cardinality({i \in 1..Len(labels) : labels[i] = cls})

\* max(items, key=count): the first item in iteration order with the largest count.
RECURSIVE MaxByCount(_, _, _, _)
MaxByCount(i, keys, labels, best) ==
    IF i > Len(keys) THEN best
    ELSE MaxByCount(i + 1, keys, labels,
             IF vote_counts(labels, keys[i]) > vote_counts(labels, best)
             THEN keys[i] ELSE best)

\* Variant of the choice that takes the label of the first prediction.
most_common_FirstSeen(labels) == labels[1]

\* Variant of the choice that breaks a tie by the order of class_names.
most_common_VocabularyOrder(labels) ==
    LET top == {c \in Classes : \A d \in Classes :
                    vote_counts(labels, d) <= vote_counts(labels, c)}
    IN class_names[CHOOSE i \in 1..Len(class_names) :
            /\ class_names[i] \in top
            /\ \A j \in 1..(i - 1) : class_names[j] \notin top]

\* vote_counts.most_common(1)[0][0]
most_common(labels) ==
    LET keys == CounterKeys(1, labels, <<>>)
    IN MaxByCount(2, keys, labels, keys[1])

RECURSIVE SumConfidence(_, _, _)
SumConfidence(i, predictions, cls) ==
    IF i > Len(predictions) THEN 0
    ELSE (IF predictions[i].predicted_class = cls THEN predictions[i].confidence ELSE 0)
         + SumConfidence(i + 1, predictions, cls)

RECURSIVE SumAllConfidence(_, _)
SumAllConfidence(i, predictions) ==
    IF i > Len(predictions) THEN 0
    ELSE predictions[i].confidence + SumAllConfidence(i + 1, predictions)

\* Variant of the mean taken over every prediction.
avg_confidence_AllPredictions(predictions, final_diagnosis) ==
    RoundDiv(SumAllConfidence(1, predictions), Len(predictions))

\* round(np.mean(confidences_for_final), 2), 0 when the list is empty
avg_confidence(predictions, final_diagnosis) ==
    LET votes == vote_counts(predicted_classes(predictions), final_diagnosis)
    IN IF votes = 0 THEN 0
       ELSE RoundDiv(SumConfidence(1, predictions, final_diagnosis), votes)

\* Variant of the distribution with entries for the voted classes only.
vote_distribution_SeenOnly(labels) ==
    [cls \in {labels[i] : i \in 1..Len(labels)} |->
        [count |-> vote_counts(labels, cls),
         percentage |-> RoundDiv(1000 * vote_counts(labels, cls), Len(labels))]]

\* One entry per class of self.class_names.
vote_distribution(labels) ==
    [cls \in Classes |->
        [count |-> vote_counts(labels, cls),
         percentage |-> RoundDiv(1000 * vote_counts(labels, cls), Len(labels))]]

predict_patient_result(predictions) ==
    LET labels == predicted_classes(predictions)
        final_diagnosis == most_common(labels)
        votes_for_final == vote_counts(labels, final_diagnosis)
    IN [patient_diagnosis |-> final_diagnosis,
        confidence |-> avg_confidence(predictions, final_diagnosis),
        vote_distribution |-> vote_distribution(labels),
        individual_predictions |-> predictions,
        consensus_strength |-> RoundDiv(1000 * votes_for_final, Len(labels)),
        total_images_processed |-> Len(labels)]

\* _generate_consistent_volumes: factor in hundredths; brain in 1/100 cm3,
\* gm, wm, csf in 1/10000 cm3, hippo and ventricles in 1/1000 cm3.
VolumeFactor(label) ==
    CASE label = "AD" -> 85 [] label = "MCI" -> 92 [] OTHER -> 100

VolumeBase == 1300

_generate_consistent_volumes(label) ==
    LET factor == VolumeFactor(label)
    IN [source |-> "estimate",
        brain |-> VolumeBase * factor,
        gm |-> VolumeBase * 45 * factor,
        wm |-> VolumeBase * 40 * factor,
        csf |-> VolumeBase * 15 * (200 - factor),
        hippo |-> 40 * factor,
        ventricles |-> 300 * (200 - factor)]

\* What extract_volumes_from_nifti returns: measured from the file's voxels.
MeasuredVolumes == [source |-> "measured"]

VolumeExtractions == {"not_attempted", "ok", "raises"}

\* Variant of the choice of volumes without the fallback on failure.
response_volumes_NoFallback(extraction, label) ==
    IF extraction = "not_attempted" THEN _generate_consistent_volumes(label)
    ELSE MeasuredVolumes

\* run_model: volumes are extracted only when 'mwp1' is in the name of the
\* processed file ("not_attempted" otherwise); an exception of the extraction
\* is caught and the estimate is used.
response_volumes(extraction, label) ==
    IF extraction = "ok" THEN MeasuredVolumes
    ELSE _generate_consistent_volumes(label)

\* config.ANALYSIS_TYPES
ANALYSIS_TYPES ==
    [x \in {"multi-disease", "ad-only"} |->
        IF x = "multi-disease" THEN <<"CN", "MCI", "AD">> ELSE <<"CN", "AD">>]

\* Values of the analysis_type form field: the configured ones and another one.
AnalysisTypes == {"multi-disease", "ad-only", "pd-only"}

\* ANALYSIS_TYPES.get(analysis_type, ['CN', 'MCI', 'AD'])
response_classes(analysis_type) ==
    IF analysis_type \in DOMAIN ANALYSIS_TYPES THEN ANALYSIS_TYPES[analysis_type]
    ELSE <<"CN", "MCI", "AD">>

\* probabilities: confidence at the index of the predicted label and
\* (1 - confidence) / (len(classes) - 1) elsewhere, all 0.0 when the label is
\* not in classes. In units of 1 / (10000 * (len(classes) - 1)), so that the
\* remainder is exact.
response_probabilities(classes, predicted_label, confidence) ==
    IF \E idx \in 1..Len(classes) : classes[idx] = predicted_label
    THEN [i \in 1..Len(classes) |->
            IF classes[i] = predicted_label
            THEN confidence * (Len(classes) - 1)
            ELSE 10000 - confidence]
    ELSE [i \in 1..Len(classes) |-> 0]

\* The response run_model builds; confidence / 100.0, in units of 1/10000.
run_model_response(prediction_result, extraction, analysis_type) ==
    [prediction |-> prediction_result.patient_diagnosis,
     confidence |-> prediction_result.confidence,
     probabilities |-> response_probabilities(response_classes(analysis_type),
                                              prediction_result.patient_diagnosis,
                                              prediction_result.confidence),
     classes |-> response_classes(analysis_type),
     volumes |-> response_volumes(extraction, prediction_result.patient_diagnosis),
     analysis_type |-> analysis_type,
     model_version |-> RealResult.model_version,
     status |-> "success"]

\* The loop of predict_patient has collected one prediction per slice.
classify_slices ==
    /\ image_predictions = <<>>
    /\ \E predictions \in PredictionSeqs : image_predictions' = predictions
    /\ UNCHANGED <<pipeline_vars, unit_vars, volume_extraction, patient_result, run_result>>

predict_patient ==
    /\ image_predictions # <<>>
    /\ patient_result = NoPatientResult
    /\ patient_result' = predict_patient_result(image_predictions)
    /\ UNCHANGED <<pipeline_vars, unit_vars, image_predictions, volume_extraction, run_result>>

format_response ==
    /\ patient_result # NoPatientResult
    /\ run_result = NoRunResult
    /\ \E extraction \in VolumeExtractions, analysis_type \in AnalysisTypes :
        /\ volume_extraction' = extraction
        /\ run_result' = run_model_response(patient_result, extraction, analysis_type)
    /\ UNCHANGED <<pipeline_vars, unit_vars, image_predictions, patient_result>>

InitAggregate ==
    /\ Init
    /\ variant = "app" /\ SUPABASE_configured /\ checkpoint_ok

NextAggregate == classify_slices \/ predict_patient \/ format_response

SpecAggregate == InitAggregate /\ [][NextAggregate]_vars

\* ------------------------------------------------------------------------
\* Slice extraction (ml/nifti_slicer.py)
\* ------------------------------------------------------------------------
\* A volume is its shape and its tissue mask, the set of 0-based voxel
\* coordinates where data > 10.
Shapes == {<<1, 2, 5>>, <<10, 20, 30>>}

Voxels(shape) ==
    (0..(shape[1] - 1)) \X (0..(shape[2] - 1)) \X (0..(shape[3] - 1))

\* Every mask of the small shape; for the large one the masks over three voxels.
MaskVoxels(shape) ==
    IF shape = <<1, 2, 5>> THEN Voxels(shape)
    ELSE {<<0, 0, 0>>, <<9, 19, 29>>, <<4, 10, 14>>}

Volumes ==
    UNION {{[shape |-> shape, mask |-> mask] : mask \in SUBSET MaskVoxels(shape)} :
              shape \in Shapes}

Planes == {"sagittal", "coronal", "axial"}

\* axis_map = {'sagittal': 0, 'coronal': 1, 'axial': 2}
axis_map == [sagittal |-> 0, coronal |-> 1, axial |-> 2]

\* data.shape[axis]
AxisLength(data, axis) == data.shape[axis + 1]

\* x_idx.min(), x_idx.max() of np.where(brain_mask)
AxisMin(mask, axis) ==
    CHOOSE m \in {v[axis + 1] : v \in mask} : \A v \in mask : m <= v[axis + 1]

AxisMax(mask, axis) ==
    CHOOSE m \in {v[axis + 1] : v \in mask} : \A v \in mask : m >= v[axis + 1]

\* Variant of the center that is always the geometric one.
_find_brain_center_Geometric(data) ==
    [plane \in Planes |-> AxisLength(data, axis_map[plane]) \div 2]

_find_brain_center(data) ==
    IF data.mask # {}
    THEN [plane \in Planes |->
            (AxisMin(data.mask, axis_map[plane])
               + AxisMax(data.mask, axis_map[plane])) \div 2]
    ELSE [plane \in Planes |-> AxisLength(data, axis_map[plane]) \div 2]

load_and_prepare ==
    /\ volume = NoVolume
    /\ viewer_result = NoViewerResult
    /\ \E data \in Volumes : volume' = data
    /\ UNCHANGED <<pipeline_vars, aggregate_vars, comparison_vars, single_prediction, storage_vars, center_map, slice_window,
                   viewer_result>>

find_brain_center ==
    /\ volume # NoVolume
    /\ center_map = NoCenter
    /\ center_map' = _find_brain_center(volume)
    /\ UNCHANGED <<pipeline_vars, aggregate_vars, comparison_vars, single_prediction, storage_vars, volume, slice_window,
                   viewer_result>>

extract_middle_slices ==
    /\ center_map # NoCenter
    /\ slice_window = NoWindow
    /\ viewer_result = NoViewerResult
    /\ \E view_plane \in Planes, num_slices \in 1..MaxNumSlices :
        slice_window' =
            [view_plane |-> view_plane,
             num_slices |-> num_slices,
             indices |-> SliceIndices(AxisLength(volume, axis_map[view_plane]),
                                      center_map[view_plane], num_slices)]
    /\ UNCHANGED <<pipeline_vars, aggregate_vars, comparison_vars, single_prediction, storage_vars, volume, center_map,
                   viewer_result>>

\* --- Viewer slices: extract_and_upload_viewer_slices ---
\* Storage path: slices/{session_code}/{plane}/slice_{index:03d}.png; the
\* public URL of an upload is the URL of its storage path.
storage_path(session_code, plane, index) == <<"slices", session_code, plane, index>>

\* Orientation lists a caller passes.
OrientationLists ==
    {<<"axial", "sagittal", "coronal">>, <<"axial">>, <<"coronal", "axial">>}

\* The uploads that fail: none, one slice of one plane, or every one.
SliceUploads == Planes \X (0..(MaxNumSlices - 1))
UploadFailures == {{}} \cup {{u} : u \in SliceUploads} \cup {SliceUploads}

\* _upload_slice_to_supabase returns the public URL, or None (here <<>>)
\* when the upload raised.
_upload_slice_to_supabase(session_code, index, plane, failed) ==
    IF <<plane, index>> \in failed THEN <<>>
    ELSE storage_path(session_code, plane, index)

\* for i, slice_idx in enumerate(indices): upload, keep the URL when there is one.
RECURSIVE upload_loop(_, _, _, _, _, _)
upload_loop(i, indices, session_code, plane, failed, urls) ==
    IF i > Len(indices) THEN urls
    ELSE LET url == _upload_slice_to_supabase(session_code, i - 1, plane, failed)
         IN upload_loop(i + 1, indices, session_code, plane, failed,
                        IF url # <<>> THEN Append(urls, url) ELSE urls)

\* Variant that returns the empty mapping as soon as one upload failed.
extract_and_upload_viewer_slices_AllOrNothing(data, session_code, num_slices, orientations, bucket_ok, failed) ==
    IF data = NoVolume \/ ~bucket_ok \/ failed # {} THEN <<>>
    ELSE [orientation \in {orientations[k] : k \in 1..Len(orientations)} |->
            upload_loop(1,
                SliceIndices(AxisLength(data, axis_map[orientation]),
                             _find_brain_center(data)[orientation], num_slices),
                session_code, orientation, failed, <<>>)]

\* The mapping orientation -> URLs; the empty mapping (here <<>>) when the
\* file cannot be loaded (NoVolume) or the bucket cannot be listed.
extract_and_upload_viewer_slices(data, session_code, num_slices, orientations, bucket_ok, failed) ==
    IF data = NoVolume \/ ~bucket_ok THEN <<>>
    ELSE [orientation \in {orientations[k] : k \in 1..Len(orientations)} |->
            upload_loop(1,
                SliceIndices(AxisLength(data, axis_map[orientation]),
                             _find_brain_center(data)[orientation], num_slices),
                session_code, orientation, failed, <<>>)]

\* A call for the volume that was loaded, or for a file that cannot be loaded.
upload_viewer_slices ==
    /\ viewer_result = NoViewerResult
    /\ slice_window = NoWindow
    /\ \E loadable \in BOOLEAN, bucket_ok \in BOOLEAN,
          num_slices \in 1..MaxNumSlices, orientations \in OrientationLists,
          failed \in UploadFailures :
        /\ IF loadable THEN center_map # NoCenter ELSE volume = NoVolume
        /\ (~loadable \/ ~bucket_ok) => (failed = {} /\ num_slices = 1)
        /\ ~loadable => bucket_ok
        /\ viewer_result' =
             [session_code |-> "SES",
              loadable |-> loadable,
              bucket_ok |-> bucket_ok,
              num_slices |-> num_slices,
              orientations |-> orientations,
              failed |-> failed,
              urls |-> extract_and_upload_viewer_slices(
                           volume, "SES", num_slices, orientations, bucket_ok, failed)]
    /\ UNCHANGED <<pipeline_vars, aggregate_vars, comparison_vars, single_prediction, storage_vars,
                   volume, center_map, slice_window>>

InitSlicer ==
    /\ Init
    /\ variant = "app" /\ SUPABASE_configured /\ checkpoint_ok

NextSlicer ==
    \/ load_and_prepare
    \/ find_brain_center
    \/ extract_middle_slices
    \/ upload_viewer_slices

SpecSlicer == InitSlicer /\ [][NextSlicer]_vars

\* ------------------------------------------------------------------------
\* Volume comparison (config.py, ml_runner.get_volume_comparison,
\* utils.get_volume_status)
\* ------------------------------------------------------------------------
\* config.NORMATIVE_VOLUMES in tenths of cm3, for the volumes that
\* get_volume_comparison maps.
NORMATIVE_VOLUMES ==
    [total_brain  |-> [min |-> 11000, max |-> 14000],
     gray_matter  |-> [min |-> 4500,  max |-> 6000],
     white_matter |-> [min |-> 4000,  max |-> 5500],
     csf          |-> [min |-> 1500,  max |-> 3000],
     hippocampus  |-> [min |-> 30,    max |-> 45]]

VolumeNames == DOMAIN NORMATIVE_VOLUMES

\* Values at and next to the ends of a normative range.
MeasuredValue(norm, k) ==
    IF k = 1 THEN norm.min - 1
    ELSE IF k = 2 THEN norm.min
    ELSE IF k = 3 THEN norm.max
    ELSE norm.max + 1

\* A result carries a value for some of the volume names.
MeasuredResults ==
    UNION {{[name \in names |-> MeasuredValue(NORMATIVE_VOLUMES[name], pick[name])] :
               pick \in [names -> 1..4]} :
           names \in SUBSET VolumeNames}

\* Variant of the status that puts the ends of the range outside it.
get_volume_status_Exclusive(value, min_norm, max_norm) ==
    IF value <= min_norm THEN "Below Normal"
    ELSE IF value >= max_norm THEN "Above Normal"
    ELSE "Normal"

get_volume_status(value, min_norm, max_norm) ==
    IF value < min_norm THEN "Below Normal"
    ELSE IF value > max_norm THEN "Above Normal"
    ELSE "Normal"

\* The status entry of get_volume_comparison for every value that is present.
get_volume_comparison(results) ==
    [name \in DOMAIN results |->
        LET value == results[name]
            norm == NORMATIVE_VOLUMES[name]
        IN IF value < norm.min THEN "Below Normal"
           ELSE IF value > norm.max THEN "Above Normal"
           ELSE "Normal"]

measure_volumes ==
    /\ measured_volumes = NotMeasured
    /\ \E results \in MeasuredResults : measured_volumes' = results
    /\ UNCHANGED <<pipeline_vars, aggregate_vars, slicer_vars, single_prediction, storage_vars, comparisons, volume_statuses>>

compare_volumes ==
    /\ measured_volumes # NotMeasured
    /\ comparisons = NoComparison
    /\ comparisons' = get_volume_comparison(measured_volumes)
    /\ UNCHANGED <<pipeline_vars, aggregate_vars, slicer_vars, single_prediction, storage_vars, measured_volumes,
                   volume_statuses>>

volume_status ==
    /\ measured_volumes # NotMeasured
    /\ volume_statuses = NoComparison
    /\ volume_statuses' =
         [name \in DOMAIN measured_volumes |->
            get_volume_status(measured_volumes[name],
                              NORMATIVE_VOLUMES[name].min,
                              NORMATIVE_VOLUMES[name].max)]
    /\ UNCHANGED <<pipeline_vars, aggregate_vars, slicer_vars, single_prediction, storage_vars, measured_volumes,
                   comparisons>>

InitComparison ==
    /\ Init
    /\ variant = "app" /\ SUPABASE_configured /\ checkpoint_ok

NextComparison == measure_volumes \/ compare_volumes \/ volume_status

SpecComparison == InitComparison /\ [][NextComparison]_vars

\* ------------------------------------------------------------------------
\* Per-slice prediction (ml/predictor.py)
\* ------------------------------------------------------------------------
\* Class probabilities in units of 1 / ProbSteps: every class has a positive
\* share and the shares sum to 1 (softmax output, Dirichlet sample).
ProbVectors ==
    {p \in [Classes -> 1..ProbSteps] : p["AD"] + p["CN"] + p["MCI"] = ProbSteps}

\* max(probs)
MaxProb(p) == CHOOSE m \in {p[c] : c \in Classes} : \A c \in Classes : m >= p[c]

\* probabilities.max(1): the first index holding the largest probability.
top_class(p) ==
    CHOOSE i \in 1..Len(class_names) :
        /\ p[class_names[i]] = MaxProb(p)
        /\ \A j \in 1..(i - 1) : p[class_names[j]] < MaxProb(p)

\* The prediction of the loaded model for a softmax output.
real_prediction(p) ==
    [kind |-> "real",
     predicted_class |-> class_names[top_class(p)],
     confidence |-> p[class_names[top_class(p)]],
     probabilities |-> p]

\* _mock_prediction: a random class, a Dirichlet sample weighted towards it,
\* and the largest share of the sample as confidence.
_mock_prediction(predicted_class, probs) ==
    [kind |-> "mock",
     predicted_class |-> predicted_class,
     confidence |-> MaxProb(probs),
     probabilities |-> probs]

\* predict_single_image: the stand-in when the model is not available or the
\* prediction raised, the model's prediction otherwise.
predict_slice ==
    /\ single_prediction = NoPrediction
    /\ \/ /\ checkpoint_ok
          /\ \E p \in ProbVectors : single_prediction' = real_prediction(p)
       \/ \E predicted_class \in Classes, probs \in ProbVectors :
            single_prediction' = _mock_prediction(predicted_class, probs)
    /\ UNCHANGED <<pipeline_vars, aggregate_vars, slicer_vars, comparison_vars, storage_vars>>

InitPredictor ==
    /\ Init
    /\ variant = "app" /\ SUPABASE_configured

NextPredictor == predict_slice

SpecPredictor == InitPredictor /\ [][NextPredictor]_vars

\* ------------------------------------------------------------------------
\* Viewer slice storage of several runs (app.py step 3, predict_api.py step 1.5)
\* ------------------------------------------------------------------------
\* A session id is a string, here a sequence of characters. The ids differ
\* in the first character or in the one after the prefix app.py keeps.
PrefixLen == 8
IdChars == {"a", "b"}
SessionIds ==
    {[i \in 1..(PrefixLen + 1) |->
         IF i = 1 THEN first ELSE IF i = PrefixLen + 1 THEN last ELSE "0"] :
     first \in IdChars, last \in IdChars}

\* app.py: session_code = f"SES-{session_id[:8]}"
session_code_app(id) == <<"S", "E", "S", "-">> \o SubSeq(id, 1, Min(PrefixLen, Len(id)))

\* predict_api.py: the session_code column of the session's row, or the
\* session id when the row or the column is missing. The column is taken to
\* hold a code of the session's own.
session_code_api(id, has_code) == IF has_code THEN <<"C", "-">> \o id ELSE id

SessionCode(v, id, has_code) ==
    IF v = "app" THEN session_code_app(id) ELSE session_code_api(id, has_code)

\* num_slices=20, orientations=['axial', 'sagittal', 'coronal']
ViewerNumSlices == 20
ViewerOrientations == <<"axial", "sagittal", "coronal">>

\* The volume the runs upload slices of.
ViewerVolume == [shape |-> <<1, 2, 5>>, mask |-> {<<0, 1, 2>>}]

\* All URLs of a returned mapping.
MappingUrls(urls) ==
    UNION {{urls[o][k] : k \in 1..Len(urls[o])} : o \in DOMAIN urls}

\* The viewer step of one run: every uploaded slice is in the bucket under
\* its storage path.
run_viewer_upload ==
    /\ Len(viewer_sessions) < MaxViewerRuns
    /\ \E id \in SessionIds, has_code \in BOOLEAN, failed \in UploadFailures :
        /\ variant = "app" => ~has_code
        /\ viewer_storage' = viewer_storage \cup
             {<<url, id>> : url \in MappingUrls(
                 extract_and_upload_viewer_slices(
                     ViewerVolume, SessionCode(variant, id, has_code),
                     ViewerNumSlices, ViewerOrientations, TRUE, failed))}
        /\ viewer_sessions' = Append(viewer_sessions, id)
    /\ UNCHANGED <<pipeline_vars, aggregate_vars, slicer_vars, comparison_vars,
                   single_prediction>>

InitViewer ==
    /\ Init
    /\ SUPABASE_configured /\ checkpoint_ok

NextViewer == run_viewer_upload

SpecViewer == InitViewer /\ [][NextViewer]_vars

\* ========================================================================
\* Properties
\* ========================================================================
Last(seq) == seq[Len(seq)]

AnyReportOk(log) == \E i \in 1..Len(log) : log[i].ok

\* C1: in a run whose classification gave a non-error result and whose
\* prediction record was created, the last status the run writes is 'failed'
\* exactly when no report was generated and uploaded, and 'completed'
\* otherwise, whatever the chart uploads did.
C1_StatusDecidedByReports ==
    \A r \in Runs :
        (pc[r] = "finally" /\ prediction_id[r] /\ ml_results[r].prediction # "Error")
        => /\ Len(status_writes[r]) > 0
           /\ Last(status_writes[r]) \in Terminal
           /\ (Last(status_writes[r]) = "failed") <=> ~AnyReportOk(report_log[r])

\* C1 witness: a run wrote 'completed' last although two of its reports
\* failed, a chart upload raised and no chart was uploaded.
C1_Witness ==
    \E r \in Runs :
        /\ pc[r] = "finally" /\ prediction_id[r]
        /\ ml_results[r].prediction # "Error"
        /\ Last(status_writes[r]) = "completed"
        /\ Cardinality({i \in 1..Len(report_log[r]) : ~report_log[r][i].ok}) = 2
        /\ \E i \in 1..Len(report_errors[r]) : report_errors[r][i] \in ChartKeys
        /\ uploaded_urls[r] \cap ChartKeys = {}

\* C2: no exception propagates out of the worker function.
C2_NoExceptionEscapes == \A r \in Runs : ~raised[r]

\* C3: once the worker has returned, the file uploaded with its request is
\* no longer in the upload folder.
C3_TempFileRemoved ==
    \A r \in Runs : pc[r] = "done" => uploads[PathOf(r)] = NoFile

\* C4: a session status that is 'completed' or 'failed' is never changed by
\* a later status write.
C4_TerminalAbsorbing ==
    [][\A s \in Sessions :
          mri_sessions[s] \in Terminal => mri_sessions'[s] = mri_sessions[s]]_vars

\* C5: a run only executes the job script written for its own session and
\* only classifies slice images derived from an upload of its own session.
C5_NoSharedFiles ==
    \A r \in Runs :
        /\ pc[r] = "cat12_exec" => script[1] = session_id[r]
        /\ \A i \in 1..Len(individual_predictions[r]) :
              session_id[individual_predictions[r][i].src] = session_id[r]

\* The steps of the worker of run r.
WorkerStep(r) ==
    \/ worker_begin(r) \/ run_model_preprocess(r) \/ run_cat12_exec(r)
    \/ run_model_slice(r) \/ run_model_infer(r) \/ create_record(r)
    \/ viewer_slices(r) \/ charts(r) \/ reports(r) \/ finalize(r)
    \/ except_handler(r) \/ cleanup(r)

\* C6: a started run is never stuck (it has returned or can take a step),
\* and once it has returned the session status is 'completed' or 'failed'.
C6_RunsToTerminalStatus ==
    \A r \in SoloRuns :
        /\ pc[r] \notin {"idle", "done"} => ENABLED WorkerStep(r)
        /\ pc[r] = "done" => mri_sessions[session_id[r]] \in Terminal

\* C7: after a failed slice extraction the run creates no prediction record,
\* generates no report, never writes 'completed', and ends 'failed'.
C7_SliceFailureAborts ==
    \A r \in Runs :
        ml_results[r].prediction = "Error"
        => /\ ~prediction_id[r]
           /\ report_log[r] = <<>>
           /\ \A i \in 1..Len(status_writes[r]) : status_writes[r][i] # "completed"
           /\ pc[r] = "finally" => Last(status_writes[r]) = "failed"

PreprocessFailures == {"nonzero", "no_output", "not_startable", "script_write_failed"}

\* C8: whatever way the preprocessing stage fails, run_model goes on to
\* slice the raw input.
C8_PreprocessFailureNonFatal ==
    \A r \in Runs :
        cat12_outcome[r] \in PreprocessFailures
        => /\ pc[r] \in {"slice", "infer", "ml_done"}
           /\ processed_path[r] = "raw"

\* C9: when the real classifier succeeded for none of the slices, run_model
\* returns the error result (no diagnosis).
C9_ZeroSlicesIsFailure ==
    \A r \in Runs :
        (pc[r] = "ml_done" /\ checkpoint_ok /\ slice_paths[r] > 0
            /\ \A i \in 1..Len(individual_predictions[r]) :
                  individual_predictions[r][i].kind # "real")
        => ml_results[r].prediction = "Error"

\* C10: a slice whose classification failed has no entry among the retained
\* per-slice predictions: every retained prediction is a real classification.
C10_FailedSliceSkipped ==
    \A r \in Runs :
        checkpoint_ok =>
            \A i \in 1..Len(individual_predictions[r]) :
                individual_predictions[r][i].kind = "real"

\* C11: the retained per-slice predictions of a run all come from the same
\* classifier variant, and a result labelled with the real model version
\* contains no stand-in prediction.
C11_NoVariantMixing ==
    \A r \in Runs :
        LET preds == individual_predictions[r]
        IN /\ \A i, j \in 1..Len(preds) : preds[i].kind = preds[j].kind
           /\ ml_results[r].model_version = RealResult.model_version
                => \A i \in 1..Len(preds) : preds[i].kind = "real"

\* C12: a run whose update of the prediction record with the report and
\* chart URLs failed never writes the status 'completed'.
C12_PersistFailureNotCompleted ==
    \A r \in Runs :
        record_update[r] = "failed"
        => \A i \in 1..Len(status_writes[r]) : status_writes[r][i] # "completed"

\* C13: the chart stage of a run always hands over to report generation: a
\* failure while generating a chart does not take the run to the worker's
\* outer exception handler.
C13_ChartFailureNonFatal ==
    [][\A r \in Runs : pc[r] = "charts" => pc'[r] \in {"charts", "reports"}]_vars

ErrorCount(errors, key) == Cardinality({j \in 1..Len(errors) : errors[j] = key})

C16_StagesInDocumentedOrder ==
    \A r \in Runs :
        /\ slice_paths[r] > 0 => cat12_outcome[r] # "none"
        /\ individual_predictions[r] # <<>> => slice_paths[r] > 0
        /\ (uploaded_urls[r] # {} \/ report_log[r] # <<>>)
              => ml_results[r] # NoResult
        /\ (prediction_id[r] /\ ml_results[r].prediction # "Error")
              => Len(report_log[r]) = Len(ReportTypes)

\* C15: the response run_model builds is a success whether or not the volume
\* extraction worked; its volumes are the measured ones only when the
\* extraction was made (grey-matter map) and returned, and in every other
\* case the six estimates for the predicted label (factor 0.85 for AD, 0.92
\* for MCI, 1 otherwise, applied to the base volumes).
C15_VolumetricFallback ==
    run_result # NoRunResult
    => LET f == IF run_result.prediction = "AD" THEN 85
                ELSE IF run_result.prediction = "MCI" THEN 92 ELSE 100
       IN /\ run_result.status = "success"
          /\ run_result.prediction = patient_result.patient_diagnosis
          /\ (run_result.volumes.source = "measured") <=> (volume_extraction = "ok")
          /\ volume_extraction # "ok"
               => /\ run_result.volumes.brain = 1300 * f
                  /\ run_result.volumes.gm = 585 * 100 * f
                  /\ run_result.volumes.wm = 520 * 100 * f
                  /\ run_result.volumes.csf = 195 * 100 * (200 - f)
                  /\ run_result.volumes.hippo = 40 * f
                  /\ run_result.volumes.ventricles = 300 * (200 - f)

\* C15 witness: the extraction raised for an AD result and the response is a
\* success with the AD estimate (brain 1105.00 cm3).
C15_Witness ==
    /\ volume_extraction = "raises"
    /\ run_result.status = "success"
    /\ run_result.prediction = "AD"
    /\ run_result.volumes.brain = 110500

\* Votes of a class among the per-slice predictions given to predict_patient.
Tally(cls) ==
    Cardinality({i \in 1..Len(image_predictions) :
                    image_predictions[i].predicted_class = cls})

\* Position of the first per-slice prediction of a class.
FirstIndex(cls) ==
    CHOOSE i \in 1..Len(image_predictions) :
        /\ image_predictions[i].predicted_class = cls
        /\ \A j \in 1..(i - 1) : image_predictions[j].predicted_class # cls

\* q is a / b rounded to the nearest unit.
IsRounded(q, a, b) == 2 * (q * b - a) <= b /\ 2 * (a - q * b) <= b

\* C17: the diagnosis has at least as many votes as every other class, and
\* the consensus strength is its share of the aggregated predictions in
\* percent, to the one decimal the result carries.
C17_DiagnosisHasMostVotes ==
    patient_result # NoPatientResult
    => LET d == patient_result.patient_diagnosis
       IN /\ d \in Classes
          /\ \A c \in Classes : Tally(c) <= Tally(d)
          /\ patient_result.total_images_processed = Len(image_predictions)
          /\ IsRounded(patient_result.consensus_strength,
                       1000 * Tally(d), Len(image_predictions))

\* C17 witness: three predictions, the diagnosis won two to one and is not
\* the label of the first prediction; consensus 66.7.
C17_Witness ==
    /\ patient_result # NoPatientResult
    /\ Len(image_predictions) = 3
    /\ image_predictions[1].predicted_class # patient_result.patient_diagnosis
    /\ Tally(patient_result.patient_diagnosis) = 2
    /\ patient_result.consensus_strength = 667

\* C18: the confidence is the mean of the confidences of the predictions
\* for the diagnosis, to the two decimals the result carries; predictions of
\* other classes do not enter it.
C18_MeanOverMatchingOnly ==
    patient_result # NoPatientResult
    => LET d == patient_result.patient_diagnosis
       IN IsRounded(patient_result.confidence,
                    SumConfidence(1, image_predictions, d), Tally(d))

\* C18 witness: AD 90, AD 70, CN 95 gives AD with 80.
C18_Witness ==
    /\ image_predictions = <<[predicted_class |-> "AD", confidence |-> 9000],
                             [predicted_class |-> "AD", confidence |-> 7000],
                             [predicted_class |-> "CN", confidence |-> 9500]>>
    /\ patient_result # NoPatientResult
    /\ patient_result.patient_diagnosis = "AD"
    /\ patient_result.confidence = 8000

\* C19: the vote distribution has an entry for each class of class_names,
\* with the class's votes as count (percentage 0 when there are none); counts
\* sum to the number of predictions and percentages to 100 within a tenth.
C19_VoteDistributionComplete ==
    patient_result # NoPatientResult
    => LET vd == patient_result.vote_distribution
           total == vd["AD"].percentage + vd["CN"].percentage + vd["MCI"].percentage
       IN /\ DOMAIN vd = Classes
          /\ \A c \in Classes :
                /\ vd[c].count = Tally(c)
                /\ Tally(c) = 0 => vd[c].percentage = 0
          /\ vd["AD"].count + vd["CN"].count + vd["MCI"].count
                = Len(image_predictions)
          /\ total >= 999 /\ total <= 1001

\* C19 witness: a class without votes has an entry with count 0 and
\* percentage 0 next to two voted classes.
C19_Witness ==
    /\ patient_result # NoPatientResult
    /\ Tally("MCI") = 0 /\ Tally("AD") = 1 /\ Tally("CN") = 2
    /\ patient_result.vote_distribution["MCI"] = [count |-> 0, percentage |-> 0]
    /\ patient_result.vote_distribution["AD"].percentage = 333

\* C20: among the classes tied with the diagnosis for the most votes, the
\* diagnosis is the one whose first prediction comes first in the sequence.
C20_TieFirstEncountered ==
    patient_result # NoPatientResult
    => LET d == patient_result.patient_diagnosis
       IN \A c \in Classes :
            (Tally(c) = Tally(d) /\ Tally(c) > 0) => FirstIndex(d) <= FirstIndex(c)

\* C20 witness: CN and AD are tied, CN was predicted first and is returned
\* although AD precedes it in class_names.
C20_Witness ==
    /\ patient_result # NoPatientResult
    /\ Len(image_predictions) = 2
    /\ image_predictions[1].predicted_class = "CN"
    /\ image_predictions[2].predicted_class = "AD"
    /\ patient_result.patient_diagnosis = "CN"

\* Elements of a sequence.
Range(seq) == {seq[i] : i \in 1..Len(seq)}

\* C21: the extracted slice indices are the window of num_slices consecutive
\* indices centered on the brain center, intersected with the index range of
\* the axis: all within bounds, at most num_slices of them, and fewer exactly
\* when the centered window crosses an end of the axis.
C21_SymmetricWindowClipped ==
    slice_window # NoWindow
    => LET length == AxisLength(volume, axis_map[slice_window.view_plane])
           count == slice_window.num_slices
           first == center_map[slice_window.view_plane] - (count \div 2)
           window == first..(first + count - 1)
           indices == slice_window.indices
       IN /\ Range(indices) = window \cap (0..(length - 1))
          /\ Len(indices) <= count
          /\ Len(indices) < count <=> (first < 0 \/ first + count > length)

\* C22: the brain center along each axis is the midpoint (rounded down) of the
\* smallest and the largest mask-true index along that axis, and for an empty
\* mask it is half the axis length.
C22_BrainCenterMidpoint ==
    center_map # NoCenter
    => \A plane \in Planes :
        LET k == axis_map[plane] + 1
            c == center_map[plane]
        IN IF volume.mask = {}
           THEN c = volume.shape[k] \div 2
           ELSE \E lo, hi \in 0..(volume.shape[k] - 1) :
                  /\ \E v \in volume.mask : v[k] = lo
                  /\ \E v \in volume.mask : v[k] = hi
                  /\ \A v \in volume.mask : lo <= v[k] /\ v[k] <= hi
                  /\ 2 * c <= lo + hi /\ lo + hi <= 2 * c + 1

\* C22 witness: an empty mask of shape (10, 20, 30) gives (5, 10, 15).
C22_Witness ==
    /\ volume = [shape |-> <<10, 20, 30>>, mask |-> {}]
    /\ center_map = [sagittal |-> 5, coronal |-> 10, axial |-> 15]

\* C23: a measured value is 'Below Normal' exactly when it is under the
\* range's min, 'Above Normal' exactly when it is over its max and 'Normal'
\* otherwise (a value at min or at max is 'Normal'), and get_volume_status
\* gives every value the status get_volume_comparison gives it.
C23_ComparisonStatus ==
    (comparisons # NoComparison /\ volume_statuses # NoComparison)
    => /\ DOMAIN comparisons = DOMAIN measured_volumes
       /\ DOMAIN volume_statuses = DOMAIN measured_volumes
       /\ \A name \in DOMAIN measured_volumes :
            LET value == measured_volumes[name]
                norm == NORMATIVE_VOLUMES[name]
            IN /\ comparisons[name] = "Below Normal" <=> value < norm.min
               /\ comparisons[name] = "Above Normal" <=> value > norm.max
               /\ comparisons[name] = "Normal" <=> (norm.min <= value /\ value <= norm.max)
               /\ volume_statuses[name] = comparisons[name]

\* C23 witness: a hippocampus exactly at min and a total brain volume exactly
\* at max are 'Normal', grey matter one unit under min is 'Below Normal',
\* for both functions.
C23_Witness ==
    /\ comparisons # NoComparison /\ volume_statuses # NoComparison
    /\ DOMAIN measured_volumes = {"hippocampus", "total_brain", "gray_matter"}
    /\ measured_volumes["hippocampus"] = 30
    /\ measured_volumes["total_brain"] = 14000
    /\ measured_volumes["gray_matter"] = 4499
    /\ comparisons["hippocampus"] = "Normal" /\ volume_statuses["hippocampus"] = "Normal"
    /\ comparisons["total_brain"] = "Normal" /\ volume_statuses["total_brain"] = "Normal"
    /\ comparisons["gray_matter"] = "Below Normal"
    /\ volume_statuses["gray_matter"] = "Below Normal"

\* Sum of a sequence of numbers.
RECURSIVE SeqSum(_)
SeqSum(seq) == IF seq = <<>> THEN 0 ELSE seq[1] + SeqSum(Tail(seq))

\* C27: in a success result the prediction is one of the result's classes,
\* which are the classes of the analysis type; probabilities has one entry
\* per class, the entry of the predicted class is the confidence and the
\* entries sum to 1.
C27_PredictionInVocabulary ==
    run_result # NoRunResult
    => LET classes == run_result.classes
           scale == Len(classes) - 1
       IN /\ classes = response_classes(run_result.analysis_type)
          /\ Len(run_result.probabilities) = Len(classes)
          /\ \E i \in 1..Len(classes) :
                /\ classes[i] = run_result.prediction
                /\ run_result.probabilities[i] = run_result.confidence * scale
          /\ SeqSum(run_result.probabilities) = 10000 * scale

\* C30: in every per-slice prediction, from the model or from the stand-in,
\* the predicted class has the highest probability of the probabilities
\* mapping and the confidence is that class's probability.
C30_PredictionConsistent ==
    single_prediction # NoPrediction
    => /\ \A c \in Classes :
            single_prediction.probabilities[single_prediction.predicted_class]
                >= single_prediction.probabilities[c]
       /\ single_prediction.confidence
            = single_prediction.probabilities[single_prediction.predicted_class]

\* C24: the statuses a run writes are 'processing' first, written before any
\* analysis stage, and then one terminal status as the last write: during the
\* analysis the run has written 'processing' only, and when it reaches its
\* cleanup after having written at all it has written exactly 'processing'
\* and one of 'completed' and 'failed'.
C24_ProcessingThenOneTerminal ==
    \A r \in Runs :
        LET writes == status_writes[r]
        IN /\ writes # <<>> => writes[1] = "processing"
           /\ Len(writes) <= 2
           /\ Len(writes) = 2 => writes[2] \in Terminal
           /\ pc[r] \notin {"idle", "entry", "except", "finally", "done"}
                => writes = <<"processing">>
           /\ (pc[r] = "finally" /\ writes # <<>>) => Len(writes) = 2

\* C24 witness: a run that created its prediction record and then failed
\* with an exception has written 'processing' and then 'failed'.
C24_Witness ==
    \E r \in Runs :
        /\ pc[r] = "finally"
        /\ prediction_id[r]
        /\ final_status[r] = "none"
        /\ status_writes[r] = <<"processing", "failed">>

\* C25: once a run has issued its record update and its terminal status
\* write, the record holds a URL only for an artifact whose upload succeeded
\* in the run, and when the session reads 'completed' an artifact without a
\* URL in the record is one the run did not produce.
C25_UrlsReflectArtifacts ==
    \A r \in Runs :
        (pc[r] = "finally" /\ final_status[r] # "none")
        => /\ record_update[r] # "none"
           /\ stored_urls(r) \subseteq uploaded_urls[r]
           /\ (final_status[r] = "completed"
                 /\ mri_sessions[session_id[r]] = "completed")
                => \A key \in ChartKeys \cup ReportKeys :
                      key \notin stored_urls(r) => key \notin uploaded_urls[r]

\* The window positions of an orientation whose upload did not fail, in order.
UploadedPositions(orientation) ==
    LET n == Len(SliceIndices(AxisLength(volume, axis_map[orientation]),
                              center_map[orientation], viewer_result.num_slices))
        Uploaded(index) == <<orientation, index>> \notin viewer_result.failed
    IN SelectSeq([i \in 1..n |-> i - 1], Uploaded)

\* C26: for a loaded volume and an accessible bucket the returned mapping has
\* exactly the requested orientations as keys, and the list of an orientation
\* holds the URLs of the slices of its window whose upload succeeded, in
\* window order (none missing and the list non-empty when no upload failed);
\* when the file cannot be loaded or the bucket cannot be listed the mapping
\* is empty.
C26_ViewerSliceMapping ==
    viewer_result # NoViewerResult
    => IF ~viewer_result.loadable \/ ~viewer_result.bucket_ok
       THEN viewer_result.urls = <<>>
       ELSE /\ DOMAIN viewer_result.urls = Range(viewer_result.orientations)
            /\ \A orientation \in Range(viewer_result.orientations) :
                 LET positions == UploadedPositions(orientation)
                     urls == viewer_result.urls[orientation]
                 IN /\ Len(urls) = Len(positions)
                    /\ \A k \in 1..Len(urls) :
                         urls[k] = storage_path(viewer_result.session_code,
                                                orientation, positions[k])
                    /\ viewer_result.failed = {} => Len(urls) >= 1

\* C26 witness: three orientations, the upload of the second axial slice
\* failed: the axial list lacks only that URL and the other lists are whole.
C26_Witness ==
    /\ viewer_result # NoViewerResult
    /\ viewer_result.loadable /\ viewer_result.bucket_ok
    /\ viewer_result.orientations = <<"axial", "sagittal", "coronal">>
    /\ viewer_result.num_slices = 3
    /\ viewer_result.failed = {<<"axial", 1>>}
    /\ viewer_result.urls["axial"] = <<storage_path("SES", "axial", 0),
                                       storage_path("SES", "axial", 2)>>
    /\ Len(viewer_result.urls["coronal"]) = 2
    /\ Len(viewer_result.urls["sagittal"]) = 1

\* C28: while a run still has to read its uploaded file, the file at its
\* path exists and holds the content uploaded with the run's own request,
\* also when another request with the same session id and file name overlaps.
C28_OwnUploadWhileReading ==
    \A r \in Runs :
        pc[r] \in {"entry", "run_model", "cat12_exec", "slice"}
        => uploads[PathOf(r)] = r

\* C29: a storage path of a viewer slice belongs to one session id: no two
\* runs with distinct session ids have uploaded a slice to the same path.
C29_PathDeterminesSession ==
    \A u, w \in viewer_storage : u[1] = w[1] => u[2] = w[2]

====
